---- MODULE Spec2Model ----
(***************************************************************************)
(* Model of beetsplug/gaana.py (GaanaPlugin): the query normalisation, the *)
(* search-and-detail fetchers, the album and track mappers, the image URL  *)
(* validator, the count parser, the identifier resolvers and the playlist  *)
(* importer.                                                               *)
(*                                                                         *)
(* Text is a sequence of one-character strings.  JSON and Python values    *)
(* are tagged records: Null, Str(s), IntV(n).  A call's outcome is a record *)
(* [exc, val]: exc = "none" when the call returned val, else the name of   *)
(* the Python exception that left the function.                            *)
(***************************************************************************)
EXTENDS Integers, Sequences, FiniteSets, TLC

VARIABLES
    baseurl,   \* TRUE when __init__ could read config["baseurl"] (self.baseurl is set)
    pc,        \* "idle" | "call" (a call is pending) | "done" | "hung"
    call,      \* the operation called and its argument(s)
    http,      \* the outbound HTTP requests of the call, in order, each with its response
    ret        \* the outcome of the call

vars == <<baseurl, pc, call, http, ret>>

\* ------------------------------------------------------------------ bounds

MaxCountLen == 4
MaxDateParts == 5
MaxDateDigits == 8
MaxTracks == 2
MaxQueryParts == 5
MaxIdParts == 3
MaxResults == 2

\* ------------------------------------------------------------------ values

Null == [t |-> "null"]
Str(s) == [t |-> "str", s |-> s]
IntV(n) == [t |-> "int", n |-> n]
List(items) == [t |-> "list", items |-> items]

Returned(v) == [exc |-> "none", val |-> v]
Raised(e) == [exc |-> e, val |-> Null]

RECURSIVE SeqsUpTo(_, _)
SeqsUpTo(S, n) ==
    IF n = 0 THEN {<<>>}
    ELSE LET shorter == SeqsUpTo(S, n - 1)
         IN  shorter \cup {Append(s, x) : s \in {t \in shorter : Len(t) = n - 1}, x \in S}

RECURSIVE Concat(_)
Concat(parts) == IF parts = <<>> THEN <<>> ELSE Head(parts) \o Concat(Tail(parts))

\* ------------------------------------------------------------------ Python text

Digits == <<"0", "1", "2", "3", "4", "5", "6", "7", "8", "9">>

IsDigit(c) == \E i \in 1..10 : Digits[i] = c

DigitVal(c) == (CHOOSE i \in 1..10 : Digits[i] = c) - 1

IsSpace(c) == c = " "

AllDigits(s) == \A i \in 1..Len(s) : IsDigit(s[i])

RECURSIVE DigitsValue(_)
DigitsValue(s) ==
    IF s = <<>> THEN 0
    ELSE 10 * DigitsValue(SubSeq(s, 1, Len(s) - 1)) + DigitVal(s[Len(s)])

RECURSIVE Pow10(_)
Pow10(n) == IF n = 0 THEN 1 ELSE 10 * Pow10(n - 1)

RECURSIVE LStrip(_)
LStrip(s) == IF s # <<>> /\ IsSpace(Head(s)) THEN LStrip(Tail(s)) ELSE s

RECURSIVE RStrip(_)
RStrip(s) ==
    IF s # <<>> /\ IsSpace(s[Len(s)]) THEN RStrip(SubSeq(s, 1, Len(s) - 1)) ELSE s

\* str.strip()
Strip(s) == RStrip(LStrip(s))

StartsWith(s, c) == s # <<>> /\ s[1] = c

EndsWith(s, c) == s # <<>> /\ s[Len(s)] = c

DropFirst(s) == SubSeq(s, 2, Len(s))

DropLast(s) == SubSeq(s, 1, Len(s) - 1)

\* needle in s
Contains(s, needle) ==
    \E i \in 0..(Len(s) - Len(needle)) : SubSeq(s, i + 1, i + Len(needle)) = needle

\* s.split(sep) for a one-character sep: the pieces between the separators
RECURSIVE Split(_, _)
Split(s, sep) ==
    IF \A i \in 1..Len(s) : s[i] # sep THEN <<s>>
    ELSE LET k == CHOOSE i \in 1..Len(s) :
                      s[i] = sep /\ \A j \in 1..(i - 1) : s[j] # sep
         IN  <<SubSeq(s, 1, k - 1)>> \o Split(SubSeq(s, k + 1, Len(s)), sep)

Last(parts) == parts[Len(parts)]

\* s.split("/")[-1]
LastSegment(s) == Last(Split(s, "/"))

\* str(n) for an integer n
RECURSIVE NatToStr(_)
NatToStr(n) ==
    IF n < 10 THEN <<Digits[n + 1]>> ELSE NatToStr(n \div 10) \o <<Digits[(n % 10) + 1]>>

IntToStr(n) == IF n < 0 THEN <<"-">> \o NatToStr(0 - n) ELSE NatToStr(n)

\* the sign of a numeral and the text after it
Sign(s) == IF StartsWith(s, "-") THEN -1 ELSE 1

Unsigned(s) == IF StartsWith(s, "-") \/ StartsWith(s, "+") THEN DropFirst(s) ELSE s

\* the integer of a numeral: one optional sign, then digits; anything else
\* raises ValueError
IntOfNumeral(s) ==
    IF Unsigned(s) # <<>> /\ AllDigits(Unsigned(s))
    THEN Returned(Sign(s) * DigitsValue(Unsigned(s)))
    ELSE Raised("ValueError")

\* int(s): surrounding whitespace is ignored
PyInt(s) == IntOfNumeral(Strip(s))

\* the positions of "." in a numeral
Dots(body) == {i \in 1..Len(body) : body[i] = "."}

\* digits "." digits with at least one digit, kept exactly as
\* sign * mant / 10^frac
Decimal(sgn, whole, part) ==
    IF AllDigits(whole) /\ AllDigits(part) /\ Len(whole) + Len(part) > 0
    THEN [kind |-> "num", sign |-> sgn, mant |-> DigitsValue(whole \o part), frac |-> Len(part)]
    ELSE [kind |-> "err"]

DecimalAt(sgn, body, d) == Decimal(sgn, SubSeq(body, 1, d - 1), SubSeq(body, d + 1, Len(body)))

\* the float of a numeral: "inf", "nan", or digits with at most one "."
FloatOfNumeral(sgn, body) ==
    IF body = <<"i", "n", "f">> THEN [kind |-> "inf", sign |-> sgn]
    ELSE IF body = <<"n", "a", "n">> THEN [kind |-> "nan"]
    ELSE IF Dots(body) = {} THEN Decimal(sgn, body, <<>>)
    ELSE IF Cardinality(Dots(body)) = 1 THEN DecimalAt(sgn, body, CHOOSE i \in Dots(body) : TRUE)
    ELSE [kind |-> "err"]

\* float(s): surrounding whitespace is ignored, one optional sign
PyFloat(s) == FloatOfNumeral(Sign(Strip(s)), Unsigned(Strip(s)))

\* int(f * mult): int() raises ValueError on nan and OverflowError on an
\* infinity, and truncates a finite product toward zero
ScaledInt(f, mult) ==
    CASE f.kind = "err" -> Raised("ValueError")
      [] f.kind = "nan" -> Raised("ValueError")
      [] f.kind = "inf" -> Raised("OverflowError")
      [] OTHER -> Returned(f.sign * ((f.mant * mult) \div Pow10(f.frac)))

\* int(float(s) * mult): float() raises ValueError on malformed text
IntOfScaledFloat(s, mult) == ScaledInt(PyFloat(s), mult)

\* ------------------------------------------------------------------ parse_count

\* not str_val
Falsy(v) ==
    \/ v.t = "null"
    \/ v.t = "str" /\ v.s = <<>>
    \/ v.t = "int" /\ v.n = 0

\* str(str_val)
PyStr(v) == IF v.t = "int" THEN IntToStr(v.n) ELSE v.s

\* except ValueError: return 0
ZeroOnValueError(r) == IF r.exc = "ValueError" THEN Returned(0) ELSE r

\* if str_val.startswith('<'): str_val = str_val[1:]
DropLessThan(s) == IF StartsWith(s, "<") THEN DropFirst(s) ELSE s

\* if str_val.endswith('+'): str_val = str_val[:-1]
DropPlus(s) == IF EndsWith(s, "+") THEN DropLast(s) ELSE s

\* the K, M and plain branches
CountOf(s) ==
    IF EndsWith(s, "K") THEN ZeroOnValueError(IntOfScaledFloat(DropLast(s), 1000))
    ELSE IF EndsWith(s, "M") THEN ZeroOnValueError(IntOfScaledFloat(DropLast(s), 1000000))
    ELSE ZeroOnValueError(PyInt(s))

parse_count(str_val) ==
    IF Falsy(str_val) THEN Returned(0)
    ELSE CountOf(DropPlus(DropLessThan(Strip(PyStr(str_val)))))

\* ------------------------------------------------------------------ HTTP

\* the timeout argument of requests.get
Timeout30 == 30

NoTimeout == [t |-> "None"]

\* What the network answers to one request: the server never answers, the
\* connection fails, or an HTTP response with a status and a body.
Stall == [net |-> "stall"]

ConnErr == [net |-> "connerr"]

HttpResp(status, body) == [net |-> "ok", status |-> status, body |-> body]

NonJson == [kind |-> "nonjson"]

ImageBody == [kind |-> "image"]

JsonObject == [kind |-> "object"]

JsonArray(items) == [kind |-> "array", items |-> items]

StatusOK == 200

StatusError == 500

Request(kind, key, timeout, resp) ==
    [kind |-> kind, key |-> key, timeout |-> timeout, resp |-> resp]

\* requests.get(url, timeout=timeout): "hang" when the server never answers
\* and no timeout was given, else the exception raised or "none"
Get(resp, timeout) ==
    CASE resp.net = "stall" -> IF timeout = NoTimeout THEN "hang" ELSE "Timeout"
      [] resp.net = "connerr" -> "ConnectionError"
      [] OTHER -> "none"

\* response.raise_for_status()
RaiseForStatus(resp) == IF resp.status >= 400 THEN "HTTPError" ELSE "none"

\* response.json()
Json(resp) ==
    IF resp.body.kind \in {"object", "array"} THEN Returned(resp.body)
    ELSE Raised("JSONDecodeError")

\* requests.get(url, timeout=30).json()
GetJson(resp) ==
    IF Get(resp, IntV(Timeout30)) # "none" THEN Raised(Get(resp, IntV(Timeout30))) ELSE Json(resp)

\* the same, with the status check forgotten
GetCheckedJson_NoStatusCheck(resp) == GetJson(resp)

\* response = requests.get(url, timeout=30); response.raise_for_status();
\* data = response.json()
GetCheckedJson(resp) ==
    IF Get(resp, IntV(Timeout30)) # "none" THEN Raised(Get(resp, IntV(Timeout30)))
    ELSE IF RaiseForStatus(resp) # "none" THEN Raised(RaiseForStatus(resp))
    ELSE Json(resp)

\* data[0] of a decoded JSON body
FirstElement(body) ==
    IF body.kind = "object" THEN Raised("KeyError")
    ELSE IF body.items = <<>> THEN Raised("IndexError")
    ELSE Returned(body.items[1])

\* ------------------------------------------------------------------ is_valid_image_url

\* a validation that looks at the URL alone and fetches nothing
is_valid_image_url_NoFetch(url, resp) ==
    [http |-> <<>>, hung |-> FALSE, val |-> url.t = "str" /\ url.s # <<>>]

\* The outcome of the validation: the request it issued (none when requests
\* rejects the URL before sending), whether the call ever returns, and the
\* boolean it returns.
is_valid_image_url(url, resp) ==
    IF url.t # "str" \/ url.s = <<>>
    THEN [http |-> <<>>, hung |-> FALSE, val |-> FALSE]
    ELSE LET req == <<Request("image", url.s, NoTimeout, resp)>>
         IN  IF Get(resp, NoTimeout) = "hang"
             THEN [http |-> req, hung |-> TRUE, val |-> FALSE]
             ELSE [http |-> req, hung |-> FALSE,
                   val |-> /\ Get(resp, NoTimeout) = "none"
                           /\ RaiseForStatus(resp) = "none"
                           /\ resp.body.kind = "image"]

\* ------------------------------------------------------------------ _get_track

\* a Python truth test of a JSON value
Truthy(v) == ~Falsy(v)

\* int(text) as a tagged value
IntOf(r) == IF r.exc = "none" THEN Returned(IntV(r.val)) ELSE r

\* TrackInfo(...): index, medium and medium_total keep the constructor's
\* default, None
TrackInfo(length, popularity, fav_count) ==
    [length |-> length,
     gaana_track_popularity |-> popularity,
     gaana_track_fav_count |-> fav_count,
     index |-> Null,
     medium |-> Null,
     medium_total |-> Null]

\* length: int(track_data['duration'].strip()), or None
TrackLength(duration) ==
    IF Truthy(duration)
    THEN IF duration.t = "str" THEN IntOf(PyInt(Strip(duration.s))) ELSE Raised("AttributeError")
    ELSE Returned(Null)

\* play_count: from popularity, else from play_count, else None
TrackPlayCount(popularity, play_count) ==
    IF Truthy(popularity)
    THEN IF popularity.t = "str"
         THEN IntOf(PyInt(Split(popularity.s, "~")[1]))
         ELSE Raised("AttributeError")
    ELSE IF Truthy(play_count) THEN IntOf(parse_count(play_count))
    ELSE Returned(Null)

\* gaana_track_fav_count: an integer as it is, anything else parsed
TrackFavCount(favorite_count) ==
    IF favorite_count.t = "int" THEN Returned(favorite_count)
    ELSE IntOf(parse_count(favorite_count))

\* the three fields in the order they are computed, then the record
TrackOf(length, play_count, gaana_track_fav_count) ==
    IF length.exc # "none" THEN length
    ELSE IF play_count.exc # "none" THEN play_count
    ELSE IF gaana_track_fav_count.exc # "none" THEN gaana_track_fav_count
    ELSE Returned(TrackInfo(length.val, play_count.val, gaana_track_fav_count.val))

_get_track(track_data) ==
    TrackOf(TrackLength(track_data.duration),
            TrackPlayCount(track_data.popularity, track_data.play_count),
            TrackFavCount(track_data.favorite_count))

\* ------------------------------------------------------------------ get_album_info

\* year, month, day = None, None, None
NoDate == <<Null, Null, Null>>

\* year = int(...); month = int(...); day = int(...)
DateOf(year, month, day) ==
    IF year.exc # "none" THEN year
    ELSE IF month.exc # "none" THEN month
    ELSE IF day.exc # "none" THEN day
    ELSE Returned(<<IntV(year.val), IntV(month.val), IntV(day.val)>>)

\* if len(releasedate) == 3: ...
DateOfParts(releasedate) ==
    IF Len(releasedate) # 3 THEN Returned(NoDate)
    ELSE DateOf(PyInt(releasedate[1]), PyInt(releasedate[2]), PyInt(releasedate[3]))

\* the release_date branch
ReleaseDate(release_date) ==
    IF Falsy(release_date) THEN Returned(NoDate)
    ELSE IF release_date.t # "str" THEN Raised("AttributeError")
    ELSE DateOfParts(Split(release_date.s, "-"))

\* track.index = i; tracks.append(track)
IndexedTrack(track, i, rest) ==
    IF track.exc # "none" THEN track
    ELSE IF rest.exc # "none" THEN rest
    ELSE Returned(<<[track.val EXCEPT !.index = IntV(i)]>> \o rest.val)

\* the loop over songs: _get_track of each, track.index = i
RECURSIVE MapTracks(_, _)
MapTracks(songs, i) ==
    IF i > Len(songs) THEN Returned(<<>>)
    ELSE IndexedTrack(_get_track(songs[i]), i, MapTracks(songs, i + 1))

\* medium_totals[track.medium] after the loop
MediumTotal(tracks, medium) == Cardinality({i \in 1..Len(tracks) : tracks[i].medium = medium})

\* for track in tracks: track.medium_total = medium_totals[track.medium]
RECURSIVE FillMediumTotals(_, _)
FillMediumTotals(tracks, all) ==
    IF tracks = <<>> THEN <<>>
    ELSE <<[Head(tracks) EXCEPT !.medium_total = IntV(MediumTotal(all, Head(tracks).medium))]>>
         \o FillMediumTotals(Tail(tracks), all)

\* max(medium_totals.keys()): one key is returned as it is, several are compared
MaxKey(keys) ==
    IF Cardinality(keys) = 1 THEN CHOOSE k \in keys : TRUE
    ELSE IntV(CHOOSE n \in {k.n : k \in keys} : \A k \in keys : k.n <= n)

Outcome(r, requests, hung) == [exc |-> r.exc, val |-> r.val, http |-> requests, hung |-> hung]

\* mediums: max(medium_totals.keys()) when there are songs, else 0
Mediums(songs, tracks) ==
    IF Len(songs) > 0 THEN MaxKey({tracks[i].medium : i \in 1..Len(tracks)}) ELSE IntV(0)

\* AlbumInfo(...)
AlbumInfo(date, cover_art_url, gaana_play_count, gaana_fav_count, tracks, mediums) ==
    [year |-> date[1],
     month |-> date[2],
     day |-> date[3],
     cover_art_url |-> cover_art_url,
     gaana_play_count |-> IntV(gaana_play_count),
     gaana_fav_count |-> IntV(gaana_fav_count),
     tracks |-> tracks,
     mediums |-> mediums]

\* the steps of get_album_info in their order: the date, the image
\* validation, the two counts, the tracks, the record
AlbumOf(item, date, image, gaana_play_count, gaana_fav_count, mapped) ==
    IF date.exc # "none" THEN Outcome(date, <<>>, FALSE)
    ELSE IF image.hung THEN Outcome(Returned(Null), image.http, TRUE)
    ELSE IF gaana_play_count.exc # "none" THEN Outcome(gaana_play_count, image.http, FALSE)
    ELSE IF gaana_fav_count.exc # "none" THEN Outcome(gaana_fav_count, image.http, FALSE)
    ELSE IF mapped.exc # "none" THEN Outcome(mapped, image.http, FALSE)
    ELSE Outcome(Returned(AlbumInfo(date.val,
                                    IF image.val THEN item.large_artwork ELSE Null,
                                    gaana_play_count.val,
                                    gaana_fav_count.val,
                                    FillMediumTotals(mapped.val, mapped.val),
                                    Mediums(item.tracks, mapped.val))),
                 image.http, FALSE)

get_album_info(item, imgResp) ==
    AlbumOf(item,
            ReleaseDate(item.release_date),
            is_valid_image_url(item.large_artwork, imgResp),
            parse_count(item.play_count),
            parse_count(item.favorite_count),
            MapTracks(item.tracks, 1))

\* ------------------------------------------------------------------ query normalisation

UpperCase ==
    <<"A", "B", "C", "D", "E", "F", "G", "H", "I", "J", "K", "L", "M",
      "N", "O", "P", "Q", "R", "S", "T", "U", "V", "W", "X", "Y", "Z">>

LowerCase ==
    <<"a", "b", "c", "d", "e", "f", "g", "h", "i", "j", "k", "l", "m",
      "n", "o", "p", "q", "r", "s", "t", "u", "v", "w", "x", "y", "z">>

IsLetter(c) == \E i \in 1..26 : UpperCase[i] = c \/ LowerCase[i] = c

\* the case folding of (?i)
ToLower(c) ==
    IF \E i \in 1..26 : UpperCase[i] = c
    THEN LowerCase[CHOOSE i \in 1..26 : UpperCase[i] = c]
    ELSE c

\* \w
IsWord(c) == IsLetter(c) \/ IsDigit(c) \/ c = "_"

\* the pattern without its +: every non-word character becomes a space
RECURSIVE ReplaceNonWord_EachChar(_)
ReplaceNonWord_EachChar(s) ==
    IF s = <<>> THEN <<>>
    ELSE IF IsWord(Head(s)) THEN <<Head(s)>> \o ReplaceNonWord_EachChar(Tail(s))
    ELSE <<" ">> \o ReplaceNonWord_EachChar(Tail(s))

\* re.sub(r'(?u)\W+', ' ', query): every maximal run of non-word characters
\* becomes one space
RECURSIVE ReplaceNonWord(_)
ReplaceNonWord(s) ==
    IF s = <<>> THEN <<>>
    ELSE IF IsWord(Head(s)) THEN <<Head(s)>> \o ReplaceNonWord(Tail(s))
    ELSE IF Len(s) > 1 /\ ~IsWord(s[2]) THEN ReplaceNonWord(Tail(s))
    ELSE <<" ">> \o ReplaceNonWord(Tail(s))

\* the text of s at i matches word, ignoring case
MatchesAt(s, i, word) ==
    /\ i + Len(word) - 1 <= Len(s)
    /\ \A k \in 1..Len(word) : ToLower(s[i + k - 1]) = word[k]

\* the first index at or after i that holds no whitespace (\s*), no digit (\d+)
RECURSIVE SkipSpaces(_, _)
SkipSpaces(s, i) == IF i <= Len(s) /\ IsSpace(s[i]) THEN SkipSpaces(s, i + 1) ELSE i

RECURSIVE SkipDigits(_, _)
SkipDigits(s, i) == IF i <= Len(s) /\ IsDigit(s[i]) THEN SkipDigits(s, i + 1) ELSE i

\* (CD|disc) tried at index i: the index after the word, or 0
MediumWordEnd(s, i) ==
    IF MatchesAt(s, i, <<"c", "d">>) THEN i + 2
    ELSE IF MatchesAt(s, i, <<"d", "i", "s", "c">>) THEN i + 4
    ELSE 0

\* \d+ tried at index i: the index after the digits, or 0
DigitsEnd(s, i) == IF SkipDigits(s, i) > i THEN SkipDigits(s, i) ELSE 0

\* \b(CD|disc)\s*\d+ tried at index i: the index after the match, or 0
MediumMatchEnd(s, i) ==
    IF (i = 1 \/ ~IsWord(s[i - 1])) /\ MediumWordEnd(s, i) # 0
    THEN DigitsEnd(s, SkipSpaces(s, MediumWordEnd(s, i)))
    ELSE 0

\* re.sub(r'(?i)\b(CD|disc)\s*\d+', '', query): the matches are found left to
\* right in the text as it was given, and removed
RECURSIVE StripMediumFrom(_, _)
StripMediumFrom(s, i) ==
    IF i > Len(s) THEN <<>>
    ELSE IF MediumMatchEnd(s, i) # 0 THEN StripMediumFrom(s, MediumMatchEnd(s, i))
    ELSE <<s[i]>> \o StripMediumFrom(s, i + 1)

StripMedium(s) == StripMediumFrom(s, 1)

NormalizeQuery(query) == StripMedium(ReplaceNonWord(query))

\* ------------------------------------------------------------------ get_albums, get_tracks

\* What the network answers during one search: to the search request, and
\* per result to the detail request and to the image request.
World(search, results) == [search |-> search, results |-> results]

\* an exception leaves the function with the requests issued so far
Continue(requests, out) == Outcome(out, requests \o out.http, out.hung)

\* requests.get(url, timeout=30) as a request of the call
JsonRequest(kind, key, resp) == <<Request(kind, key, IntV(Timeout30), resp)>>

\* albums.append(album_info), and on to the next result
AppendAlbum(req, album_info, rest) ==
    IF album_info.exc # "none" \/ album_info.hung THEN Continue(req, album_info)
    ELSE IF rest.exc # "none" \/ rest.hung THEN Continue(req \o album_info.http, rest)
    ELSE Outcome(Returned(List(<<album_info.val>> \o rest.val.items)),
                 req \o album_info.http \o rest.http, FALSE)

\* album_info = self.get_album_info(album_details[0])
AlbumOfFirst(req, first, imgResp, rest) ==
    IF first.exc # "none" THEN Outcome(first, req, FALSE)
    ELSE AppendAlbum(req, get_album_info(first.val, imgResp), rest)

\* album_details = requests.get(album_url, timeout=30).json()
AlbumOfDetails(req, album_details, imgResp, rest) ==
    IF album_details.exc # "none" THEN Outcome(album_details, req, FALSE)
    ELSE AlbumOfFirst(req, FirstElement(album_details.val), imgResp, rest)

\* the loop of get_albums over the search results, from result i on
RECURSIVE AlbumLoop(_, _, _)
AlbumLoop(data, world, i) ==
    IF i > Len(data) THEN Outcome(Returned(List(<<>>)), <<>>, FALSE)
    ELSE AlbumOfDetails(JsonRequest("album_details", data[i].seokey, world.results[i].detail),
                        GetJson(world.results[i].detail),
                        world.results[i].image,
                        AlbumLoop(data, world, i + 1))

\* the search request and what follows it
AlbumsOf(req, data, world) ==
    IF data.exc # "none" THEN Outcome(Returned(List(<<>>)), req, FALSE)
    ELSE IF data.val.kind = "object" THEN Outcome(Raised("TypeError"), req, FALSE)
    ELSE Continue(req, AlbumLoop(data.val.items, world, 1))

get_albums(query, world) ==
    IF ~baseurl THEN Outcome(Raised("AttributeError"), <<>>, FALSE)
    ELSE AlbumsOf(JsonRequest("album_search", NormalizeQuery(query), world.search),
                  GetCheckedJson(world.search), world)

\* tracks.append(song_info), and on to the next result
AppendTrack(req, song_info, rest) ==
    IF song_info.exc # "none" THEN Outcome(song_info, req, FALSE)
    ELSE IF rest.exc # "none" THEN Continue(req, rest)
    ELSE Outcome(Returned(List(<<song_info.val>> \o rest.val.items)), req \o rest.http, FALSE)

\* song_info = self._get_track(song_details[0])
TrackOfFirst(req, first, rest) ==
    IF first.exc # "none" THEN Outcome(first, req, FALSE)
    ELSE AppendTrack(req, _get_track(first.val), rest)

\* song_details = requests.get(song_url, timeout=30).json()
TrackOfDetails(req, song_details, rest) ==
    IF song_details.exc # "none" THEN Outcome(song_details, req, FALSE)
    ELSE TrackOfFirst(req, FirstElement(song_details.val), rest)

\* the loop of get_tracks over the search results, from result i on
RECURSIVE TrackLoop(_, _, _)
TrackLoop(data, world, i) ==
    IF i > Len(data) THEN Outcome(Returned(List(<<>>)), <<>>, FALSE)
    ELSE TrackOfDetails(JsonRequest("song_details", data[i].seokey, world.results[i].detail),
                        GetJson(world.results[i].detail),
                        TrackLoop(data, world, i + 1))

\* the search request and what follows it
TracksOf(req, data, world) ==
    IF data.exc # "none" THEN Outcome(Returned(List(<<>>)), req, FALSE)
    ELSE IF data.val.kind = "object" THEN Outcome(Raised("TypeError"), req, FALSE)
    ELSE Continue(req, TrackLoop(data.val.items, world, 1))

get_tracks(query, world) ==
    IF ~baseurl THEN Outcome(Raised("AttributeError"), <<>>, FALSE)
    ELSE TracksOf(JsonRequest("song_search", NormalizeQuery(query), world.search),
                  GetCheckedJson(world.search), world)

\* ------------------------------------------------------------------ candidates, item_candidates

\* except Exception: return []
EmptyOnException(out) ==
    IF out.exc # "none" THEN Outcome(Returned(List(<<>>)), out.http, out.hung) ELSE out

candidates(artist, album, va_likely, world) ==
    EmptyOnException(get_albums(IF va_likely THEN album ELSE album \o <<" ">> \o artist, world))

item_candidates(artist, title, world) ==
    EmptyOnException(get_tracks(title \o <<" ">> \o artist, world))

\* ------------------------------------------------------------------ album_for_id, track_for_id

AlbumMarker == <<"g", "a", "a", "n", "a", ".", "c", "o", "m", "/", "a", "l", "b", "u", "m", "/">>

SongMarker == <<"g", "a", "a", "n", "a", ".", "c", "o", "m", "/", "s", "o", "n", "g", "/">>

PlaylistMarker == <<"/", "p", "l", "a", "y", "l", "i", "s", "t", "/">>

GaanaHost == <<"g", "a", "a", "n", "a", ".", "c", "o", "m", "/">>

\* a test for the host alone
IsAlbumUrl_AnyGaanaUrl(album_id) == Contains(album_id, GaanaHost)

\* 'gaana.com/album/' in album_id
IsAlbumUrl(album_id) == Contains(album_id, AlbumMarker)

\* 'gaana.com/song/' in track_id
IsSongUrl(track_id) == Contains(track_id, SongMarker)

\* return self.get_album_info(album_details[0])
AlbumForFirst(req, first, imgResp) ==
    IF first.exc # "none" THEN Outcome(first, req, FALSE)
    ELSE Continue(req, get_album_info(first.val, imgResp))

\* the lookup request and what follows it
AlbumForDetails(req, album_details, imgResp) ==
    IF album_details.exc # "none" THEN Outcome(Returned(Null), req, FALSE)
    ELSE AlbumForFirst(req, FirstElement(album_details.val), imgResp)

album_for_id(album_id, resp, imgResp) ==
    IF ~IsAlbumUrl(album_id) THEN Outcome(Returned(Null), <<>>, FALSE)
    ELSE IF ~baseurl THEN Outcome(Raised("AttributeError"), <<>>, FALSE)
    ELSE AlbumForDetails(JsonRequest("album_details", LastSegment(album_id), resp),
                         GetCheckedJson(resp), imgResp)

\* return self._get_track(song_details[0])
TrackForFirst(req, first) ==
    IF first.exc # "none" THEN Outcome(first, req, FALSE)
    ELSE Outcome(_get_track(first.val), req, FALSE)

\* the lookup request and what follows it
TrackForDetails(req, song_details) ==
    IF song_details.exc # "none" THEN Outcome(Returned(Null), req, FALSE)
    ELSE TrackForFirst(req, FirstElement(song_details.val))

track_for_id(track_id, resp) ==
    IF IsSongUrl(track_id)
    THEN IF ~baseurl THEN Outcome(Raised("AttributeError"), <<>>, FALSE)
         ELSE TrackForDetails(JsonRequest("song_details", LastSegment(track_id), resp),
                              GetCheckedJson(resp))
    ELSE Outcome(Returned(Null), <<>>, FALSE)

\* ------------------------------------------------------------------ import_gaana_playlist

Quot == <<"&", "q", "u", "o", "t", ";">>

\* text.replace("&quot;", "\"")
RECURSIVE Unescape(_)
Unescape(s) ==
    IF s = <<>> THEN <<>>
    ELSE IF Len(s) >= Len(Quot) /\ SubSeq(s, 1, Len(Quot)) = Quot
    THEN <<"\"">> \o Unescape(SubSeq(s, Len(Quot) + 1, Len(s)))
    ELSE <<Head(s)>> \o Unescape(Tail(s))

\* song_dict of one song; song_list.append(song_dict)
AppendSong(song, rest) ==
    IF song.title.t # "str" \/ song.artists.t # "str" \/ song.album.t # "str"
    THEN Raised("AttributeError")
    ELSE IF rest.exc # "none" THEN rest
    ELSE Returned(List(<<[title |-> Strip(Unescape(song.title.s)),
                          artist |-> Strip(song.artists.s),
                          album |-> Strip(Unescape(song.album.s))]>> \o rest.val.items))

\* the loop over the songs of the playlist
RECURSIVE SongList(_)
SongList(songs) ==
    IF songs = <<>> THEN Returned(List(<<>>))
    ELSE AppendSong(Head(songs), SongList(Tail(songs)))

\* the playlist request and what follows it
SongsOf(req, songs) ==
    IF songs.exc # "none" THEN Outcome(Returned(List(<<>>)), req, FALSE)
    ELSE IF songs.val.kind = "object" THEN Outcome(Raised("TypeError"), req, FALSE)
    ELSE Outcome(SongList(songs.val.items), req, FALSE)

import_gaana_playlist(url, resp) ==
    IF ~Contains(url, PlaylistMarker) THEN Outcome(Returned(List(<<>>)), <<>>, FALSE)
    ELSE IF ~baseurl THEN Outcome(Raised("AttributeError"), <<>>, FALSE)
    ELSE SongsOf(JsonRequest("playlist_details", LastSegment(url), resp), GetCheckedJson(resp))

\* ------------------------------------------------------------------ inputs

CountChars == {"<", "+", "-", ".", " ", "K", "M", "1", "5", "i", "n", "f", "a"}

\* None, integers, and every text of up to len characters
CountInputs(len) ==
    {Null} \cup {IntV(n) : n \in {-3, 0, 12}}
           \cup {Str(s) : s \in SeqsUpTo(CountChars, len)}

TrackData ==
    [duration : {Null, Str(<<"2", "1">>), Str(<<"x">>)},
     popularity : {Null, Str(<<"5", "~", "1">>), Str(<<"-", "5", "~", "1">>)},
     play_count : {Null, Str(<<"1", "K", "+">>), Str(<<"-", "1", "K">>)},
     favorite_count : {Null, IntV(-3), IntV(12), Str(<<"<", "5">>)}]

\* the songs of the album objects: one that maps, one whose duration does not
AlbumSongs ==
    {td \in TrackData : /\ td.popularity = Null
                        /\ td.play_count = Str(<<"1", "K", "+">>)
                        /\ td.favorite_count = IntV(12)
                        /\ td.duration # Null}

DateTokens == {<<"2", "0", "0", "1">>, <<"0", "9">>, <<"1", "1">>, <<"-">>, <<"x">>}

\* the numerals of a date stay within the integers TLC computes with
ShortNumerals(s) == \A i \in 1..Len(Split(s, "-")) : Len(Split(s, "-")[i]) <= MaxDateDigits

ReleaseDates ==
    {Null} \cup {Str(d) : d \in {c \in {Concat(parts) : parts \in SeqsUpTo(DateTokens, MaxDateParts)} :
                                  ShortNumerals(c)}}

SampleDates == {Null, Str(Concat(<<<<"2", "0", "0", "1">>, <<"-">>, <<"0", "9">>, <<"-">>, <<"1", "1">>>>))}

ArtworkUrl == Str(<<"u">>)

ImageResps ==
    {Stall, ConnErr, HttpResp(StatusOK, ImageBody), HttpResp(StatusOK, NonJson),
     HttpResp(StatusError, ImageBody)}

AlbumData ==
    [release_date : ReleaseDates,
     large_artwork : {Null, ArtworkUrl},
     play_count : {Str(<<"1", "K", "+">>), Str(<<"i", "n", "f", "K">>), Str(<<"-", "5">>)},
     favorite_count : {Str(<<"<", "5">>)},
     tracks : SeqsUpTo(AlbumSongs, MaxTracks)]

PlainAlbum(item) ==
    /\ item.large_artwork = ArtworkUrl
    /\ item.play_count = Str(<<"1", "K", "+">>)
    /\ item.tracks = <<>>

\* every release date on the plain album, every other album on the sample dates
AlbumInputs == {item \in AlbumData : PlainAlbum(item) \/ item.release_date \in SampleDates}

\* the response of the image request, when the album has an artwork URL to ask for
ImageRespsFor(item) == IF item.large_artwork = Null THEN {ConnErr} ELSE ImageResps

MapCalls(len) ==
    [op : {"parse_count"}, arg : CountInputs(len)]
    \cup [op : {"_get_track"}, arg : TrackData]
    \cup {[op |-> "get_album_info", arg |-> item, resp |-> r] :
             item \in AlbumInputs, r \in ImageResps}

\* ------------------------------------------------------------------ actions

IsCall(op) == pc = "call" /\ call.op = op

\* the call returns, raises, or never returns
Finish(out) ==
    /\ pc' = IF out.hung THEN "hung" ELSE "done"
    /\ http' = out.http
    /\ ret' = [exc |-> out.exc, val |-> out.val]
    /\ UNCHANGED baseurl

CallParseCount ==
    /\ IsCall("parse_count")
    /\ Finish(Outcome(parse_count(call.arg), <<>>, FALSE))
    /\ UNCHANGED call

CallGetTrack ==
    /\ IsCall("_get_track")
    /\ Finish(Outcome(_get_track(call.arg), <<>>, FALSE))
    /\ UNCHANGED call

CallGetAlbumInfo ==
    /\ IsCall("get_album_info")
    /\ Finish(get_album_info(call.arg, call.resp))
    /\ UNCHANGED call

InitMap ==
    /\ baseurl = TRUE
    /\ pc = "call"
    /\ call \in {c \in MapCalls(MaxCountLen) :
                    c.op = "get_album_info" => c.resp \in ImageRespsFor(c.arg)}
    /\ http = <<>>
    /\ ret = Returned(Null)

NextMap == CallParseCount \/ CallGetTrack \/ CallGetAlbumInfo

SpecMap == InitMap /\ [][NextMap]_vars

\* ------------------------------------------------------------------ the query normaliser

QueryTokens == {<<"C", "D">>, <<"D", "i", "s", "c">>, <<"1">>, <<" ">>, <<"!">>, <<"a">>}

Queries == {Concat(parts) : parts \in SeqsUpTo(QueryTokens, MaxQueryParts)}

\* a search that finds nothing
NoResults == World(HttpResp(StatusOK, JsonArray(<<>>)), <<>>)

Search(op, query, world) ==
    IF op = "get_albums" THEN get_albums(query, world) ELSE get_tracks(query, world)

\* get_albums or get_tracks is called with a query
SearchQuery ==
    /\ pc = "call"
    /\ Finish(Search(call.op, call.query, NoResults))
    /\ UNCHANGED call

\* the same search is called with the query its request carried
SearchNormalized ==
    /\ pc = "done"
    /\ call.round = 1
    /\ call' = [call EXCEPT !.query = http[1].key, !.round = 2]
    /\ Finish(Search(call.op, http[1].key, NoResults))

InitQuery ==
    /\ baseurl = TRUE
    /\ pc = "call"
    /\ call \in {[op |-> op, query |-> q, raw |-> q, round |-> 1] :
                    op \in {"get_albums", "get_tracks"}, q \in Queries}
    /\ http = <<>>
    /\ ret = Returned(Null)

NextQuery == SearchQuery \/ SearchNormalized

SpecQuery == InitQuery /\ [][NextQuery]_vars

\* ------------------------------------------------------------------ the plugin's operations

Seokey(i) == <<"k", Digits[i + 1]>>

Summaries(n) == [i \in 1..n |-> [seokey |-> Seokey(i)]]

Statuses == {StatusOK, StatusError}

JsonResps(arrays) ==
    {Stall, ConnErr}
    \cup {HttpResp(st, b) : st \in Statuses, b \in {NonJson, JsonObject} \cup {JsonArray(a) : a \in arrays}}

SearchResps == JsonResps({Summaries(n) : n \in 0..MaxResults})

GoodSong ==
    [duration |-> Str(<<"2", "1">>), popularity |-> Null,
     play_count |-> Str(<<"1", "K", "+">>), favorite_count |-> IntV(12)]

GoodAlbum ==
    [release_date |-> Str(<<"2", "0", "0", "1", "-", "0", "9", "-", "1", "1">>),
     large_artwork |-> ArtworkUrl,
     play_count |-> Str(<<"1", "K", "+">>),
     favorite_count |-> Str(<<"<", "5">>),
     tracks |-> <<GoodSong>>]

\* album objects of the detail endpoint: one that maps, one whose date does
\* not, one without an artwork URL
NetAlbums ==
    {GoodAlbum,
     [GoodAlbum EXCEPT !.release_date = Str(<<"2", "0", "0", "1", "-", "x", "-", "1", "1">>)],
     [GoodAlbum EXCEPT !.large_artwork = Null]}

NetSongs == {GoodSong, [GoodSong EXCEPT !.duration = Str(<<"x">>)]}

AlbumDetailResps == JsonResps({<<>>} \cup {<<a>> : a \in NetAlbums})

SongDetailResps == JsonResps({<<>>} \cup {<<s>> : s \in NetSongs})

NetImageResps == {Stall, ConnErr, HttpResp(StatusOK, ImageBody)}

\* the detail response carries an album with an artwork URL to validate
HasArtwork(detail) ==
    /\ detail.net = "ok"
    /\ detail.body.kind = "array"
    /\ detail.body.items # <<>>
    /\ detail.body.items[1].large_artwork # Null

\* the answers to the requests one album result causes
AlbumResults ==
    {r \in [detail : AlbumDetailResps, image : NetImageResps] :
        HasArtwork(r.detail) \/ r.image = ConnErr}

SongResults == [detail : SongDetailResps, image : {ConnErr}]

ResultCount(search) ==
    IF search.net = "ok" /\ search.body.kind = "array" THEN Len(search.body.items) ELSE 0

Worlds(results) ==
    {World(search, rs) : search \in SearchResps, rs \in SeqsUpTo(results, MaxResults)}

WorldsOf(results) == {w \in Worlds(results) : Len(w.results) = ResultCount(w.search)}

NetQueries == {<<"a", "!">>, <<"C", "D", "1", " ", "a">>}

Artists == {<<"b">>}

IdTokens ==
    {<<"g", "a", "a", "n", "a", ".", "c", "o", "m", "/">>,
     <<"a", "l", "b", "u", "m", "/">>,
     <<"s", "o", "n", "g", "/">>,
     <<"p", "l", "a", "y", "l", "i", "s", "t", "/">>,
     <<"x">>}

Ids == {Concat(parts) : parts \in SeqsUpTo(IdTokens, MaxIdParts)}

PlaylistSongs ==
    {[title |-> Str(<<" ", "a", "&", "q", "u", "o", "t", ";">>), artists |-> Str(<<"b", " ">>),
      album |-> Str(<<"c">>)],
     [title |-> Null, artists |-> Str(<<"b">>), album |-> Str(<<"c">>)]}

PlaylistResps == JsonResps(SeqsUpTo(PlaylistSongs, MaxResults))

Idle == pc = "idle"

Begin(c) == call' = c

GetAlbums ==
    /\ Idle
    /\ \E query \in NetQueries, world \in WorldsOf(AlbumResults) :
           /\ Begin([op |-> "get_albums", query |-> query])
           /\ Finish(get_albums(query, world))

GetTracks ==
    /\ Idle
    /\ \E query \in NetQueries, world \in WorldsOf(SongResults) :
           /\ Begin([op |-> "get_tracks", query |-> query])
           /\ Finish(get_tracks(query, world))

Candidates ==
    /\ Idle
    /\ \E artist \in Artists, album \in NetQueries, va_likely \in BOOLEAN,
          world \in WorldsOf(AlbumResults) :
           /\ Begin([op |-> "candidates", artist |-> artist, album |-> album,
                     va_likely |-> va_likely])
           /\ Finish(candidates(artist, album, va_likely, world))

ItemCandidates ==
    /\ Idle
    /\ \E artist \in Artists, title \in NetQueries, world \in WorldsOf(SongResults) :
           /\ Begin([op |-> "item_candidates", artist |-> artist, title |-> title])
           /\ Finish(item_candidates(artist, title, world))

AlbumForId ==
    /\ Idle
    /\ \E album_id \in Ids, r \in AlbumResults :
           /\ Begin([op |-> "album_for_id", id |-> album_id])
           /\ Finish(album_for_id(album_id, r.detail, r.image))

TrackForId ==
    /\ Idle
    /\ \E track_id \in Ids, resp \in SongDetailResps :
           /\ Begin([op |-> "track_for_id", id |-> track_id])
           /\ Finish(track_for_id(track_id, resp))

ImportGaanaPlaylist ==
    /\ Idle
    /\ \E url \in Ids, resp \in PlaylistResps :
           /\ Begin([op |-> "import_gaana_playlist", id |-> url])
           /\ Finish(import_gaana_playlist(url, resp))

\* the caller has the result and may call again; nothing is kept
Return ==
    /\ pc = "done"
    /\ pc' = "idle"
    /\ call' = [op |-> "none"]
    /\ http' = <<>>
    /\ ret' = Returned(Null)
    /\ UNCHANGED baseurl

Init ==
    /\ baseurl \in BOOLEAN
    /\ pc = "idle"
    /\ call = [op |-> "none"]
    /\ http = <<>>
    /\ ret = Returned(Null)

Next ==
    \/ GetAlbums
    \/ GetTracks
    \/ Candidates
    \/ ItemCandidates
    \/ AlbumForId
    \/ TrackForId
    \/ ImportGaanaPlaylist
    \/ Return

Spec == Init /\ [][Next]_vars

Done(op) == pc = "done" /\ call.op = op

\* ------------------------------------------------------------------ C3

NoSpace(s) == \A i \in 1..Len(s) : ~IsSpace(s[i])

\* the numeric conversions of the rules: a number, or 0 when the text is none
Truncated(f, mult) ==
    IF f.kind = "num" THEN f.sign * ((f.mant * mult) \div Pow10(f.frac)) ELSE 0

NumberTimes(s, mult) == Truncated(PyFloat(s), mult)

IntegerOrZero(s) == IF PyInt(s).exc = "none" THEN PyInt(s).val ELSE 0

\* the K rule, the M rule, the integer rule
NumberRules(b) ==
    IF EndsWith(b, "K") THEN NumberTimes(DropLast(b), 1000)
    ELSE IF EndsWith(b, "M") THEN NumberTimes(DropLast(b), 1000000)
    ELSE IntegerOrZero(b)

WithoutPlus(a) == IF EndsWith(a, "+") THEN DropLast(a) ELSE a

WithoutLessThan(s) == IF StartsWith(s, "<") THEN DropFirst(s) ELSE s

\* the rules of the count parser, applied in order
CountRules(v) ==
    IF v.t = "null" \/ v.s = <<>> THEN 0
    ELSE NumberRules(WithoutPlus(WithoutLessThan(v.s)))

\* C3: parse_count returns the value of the rules (null or empty gives 0, a
\* leading "<" and a trailing "+" are stripped, a K or M suffix scales the
\* number before it and truncates, anything else is read as an integer) and a
\* failed numeric conversion gives 0 instead of raising.  Stated for null and
\* for text without whitespace, where str.strip changes nothing.
C3_ParseCountFollowsRules ==
    (Done("parse_count") /\ call.arg.t # "int" /\ (call.arg.t = "str" => NoSpace(call.arg.s)))
        => ret = Returned(CountRules(call.arg))

\* ------------------------------------------------------------------ C4

NonNegative(v) == v.t = "null" \/ v.n >= 0

TrackCountsNonNegative(track) ==
    /\ NonNegative(track.gaana_track_popularity)
    /\ NonNegative(track.gaana_track_fav_count)

\* C4: every count of a mapped record (an album's play and favorite counts, a
\* track's popularity when it is not null and its favorite count) and every
\* value parse_count returns is a non-negative integer.
C4_CountsNonNegative ==
    (pc = "done" /\ ret.exc = "none") =>
        CASE call.op = "parse_count" -> ret.val >= 0
          [] call.op = "_get_track" -> TrackCountsNonNegative(ret.val)
          [] call.op = "get_album_info" ->
                /\ NonNegative(ret.val.gaana_play_count)
                /\ NonNegative(ret.val.gaana_fav_count)
                /\ \A i \in 1..Len(ret.val.tracks) : TrackCountsNonNegative(ret.val.tracks[i])
          [] OTHER -> TRUE

\* ------------------------------------------------------------------ C5

SameMedium(tracks, i) == Cardinality({j \in 1..Len(tracks) : tracks[j].medium = tracks[i].medium})

\* C5: after get_album_info maps an album of N >= 1 tracks, every track carries
\* a medium index, its medium_total is the number of tracks on its medium, the
\* tracks are indexed 1..N in list order and the album's medium count is the
\* largest medium index; an album without tracks has medium count 0.
C5_MediumAccounting ==
    (Done("get_album_info") /\ ret.exc = "none") =>
        LET tracks == ret.val.tracks
        IN  /\ Len(tracks) = Len(call.arg.tracks)
            /\ \A i \in 1..Len(tracks) :
                  /\ tracks[i].medium.t = "int"
                  /\ tracks[i].medium_total = IntV(SameMedium(tracks, i))
                  /\ tracks[i].index = IntV(i)
            /\ IF tracks = <<>> THEN ret.val.mediums = IntV(0)
               ELSE /\ ret.val.mediums.t = "int"
                    /\ \A i \in 1..Len(tracks) : tracks[i].medium.n <= ret.val.mediums.n
                    /\ \E i \in 1..Len(tracks) : tracks[i].medium = ret.val.mediums

\* ------------------------------------------------------------------ C7

\* exactly three "-"-delimited components, each a run of digits
ThreeIntegers(release_date) ==
    /\ release_date.t = "str"
    /\ LET parts == Split(release_date.s, "-")
       IN  /\ Len(parts) = 3
           /\ \A i \in 1..3 : parts[i] # <<>> /\ AllDigits(parts[i])

\* the rest of the album (its counts and its songs) maps without an exception
RestMaps(item) ==
    /\ parse_count(item.play_count).exc = "none"
    /\ parse_count(item.favorite_count).exc = "none"
    /\ \A i \in 1..Len(item.tracks) : _get_track(item.tracks[i]).exc = "none"

\* C7: get_album_info produces a record whose year, month and day are all
\* populated, when release_date has exactly three "-"-delimited integer
\* components, and all null otherwise (absent, null, two-part or malformed),
\* without aborting the mapping.
C7_DateAllOrNothing ==
    (pc = "done" /\ call.op = "get_album_info" /\ RestMaps(call.arg)) =>
        /\ ret.exc = "none"
        /\ IF ThreeIntegers(call.arg.release_date)
           THEN LET parts == Split(call.arg.release_date.s, "-")
                IN  /\ ret.val.year = IntV(DigitsValue(parts[1]))
                    /\ ret.val.month = IntV(DigitsValue(parts[2]))
                    /\ ret.val.day = IntV(DigitsValue(parts[3]))
           ELSE /\ ret.val.year = Null
                /\ ret.val.month = Null
                /\ ret.val.day = Null

\* ------------------------------------------------------------------ C1

SearchOps == {"get_albums", "get_tracks", "candidates", "item_candidates"}

LookupOps == {"album_for_id", "track_for_id"}

LacksMarker ==
    \/ call.op = "album_for_id" /\ ~Contains(call.id, AlbumMarker)
    \/ call.op = "track_for_id" /\ ~Contains(call.id, SongMarker)

\* C1: album_for_id of an identifier without 'gaana.com/album/', and
\* track_for_id of one without 'gaana.com/song/', returns None and issues no
\* HTTP request.
C1_NoMarkerNoRequest ==
    (pc # "idle" /\ call.op \in LookupOps /\ LacksMarker) =>
        /\ pc = "done"
        /\ ret = Returned(Null)
        /\ http = <<>>

\* a song URL given to album_for_id: the host is there, the marker is not
C1_Witness ==
    /\ Done("album_for_id")
    /\ call.id = SongMarker \o <<"x">>
    /\ ret = Returned(Null)
    /\ http = <<>>

\* ------------------------------------------------------------------ C2

\* a transport failure, a non-2xx status or a body that is no JSON
Failed(resp) ==
    \/ resp.net # "ok"
    \/ resp.status >= 400
    \/ resp.body.kind \notin {"object", "array"}

\* C2: when the search request of get_albums, get_tracks, candidates or
\* item_candidates, or the lookup request of album_for_id or track_for_id,
\* fails (timeout, connection error, non-2xx status, undecodable JSON), the
\* operation returns the empty list (searches) or None (lookups) and raises
\* nothing.
C2_FailedRequestGivesEmpty ==
    (pc # "idle" /\ call.op \in SearchOps \cup LookupOps /\ http # <<>> /\ Failed(http[1].resp)) =>
        /\ pc = "done"
        /\ ret.exc = "none"
        /\ IF call.op \in LookupOps THEN ret.val = Null ELSE ret.val = List(<<>>)
        /\ Len(http) = 1

\* a lookup answered with an error status and a body that would have mapped
C2_Witness ==
    /\ Done("album_for_id")
    /\ Len(http) = 1
    /\ http[1].resp = HttpResp(StatusError, JsonArray(<<GoodAlbum>>))
    /\ ret = Returned(Null)

\* ------------------------------------------------------------------ C8

\* C8: every outbound HTTP request (search, detail, lookup, playlist and
\* image validation) carries the timeout of 30.
C8_EveryRequestHasTimeout ==
    \A i \in 1..Len(http) : http[i].timeout = IntV(Timeout30)

\* ------------------------------------------------------------------ C9

Succeeded(req) ==
    IF req.kind = "image"
    THEN req.resp.net = "ok" /\ req.resp.status < 400 /\ req.resp.body.kind = "image"
    ELSE ~Failed(req.resp)

\* the search listed results, no request failed and every result was mapped
SearchWentThrough ==
    /\ pc = "done"
    /\ call.op \in SearchOps
    /\ http # <<>>
    /\ \A i \in 1..Len(http) : Succeeded(http[i])
    /\ http[1].resp.body.kind = "array"
    /\ ret.exc = "none"
    /\ Len(ret.val.items) = Len(http[1].resp.body.items)

Listed == http[1].resp.body.items

IsDetail(req) == req.kind \in {"album_details", "song_details"}

DetailRequests == SelectSeq(http, IsDetail)

\* the detail requests are those of the results, in the order of the search
DetailsInOrder ==
    /\ http[1].kind \in {"album_search", "song_search"}
    /\ Len(DetailRequests) = Len(Listed)
    /\ \A i \in 1..Len(Listed) : DetailRequests[i].key = Listed[i].seokey

SameRequest(a, b) == a.kind = b.kind /\ a.key = b.key

\* C10: when candidates or item_candidates has ended, a failed search or
\* detail request has aborted it: it returned the empty list, no request
\* follows the failed one, and no request was issued twice.
C10_FailedRequestAborts ==
    (pc = "done" /\ call.op \in {"candidates", "item_candidates"}) =>
        /\ \A k \in 1..Len(http) :
              (http[k].kind # "image" /\ Failed(http[k].resp)) =>
                  /\ ret = Returned(List(<<>>))
                  /\ k = Len(http)
        /\ \A i, j \in 1..Len(http) :
              (i < j /\ http[i].kind # "image") => ~SameRequest(http[i], http[j])

\* ------------------------------------------------------------------ C6

DoubleSpace(s) == \E i \in 1..(Len(s) - 1) : IsSpace(s[i]) /\ IsSpace(s[i + 1])

HasMedium(s) == \E i \in 1..Len(s) : MediumMatchEnd(s, i) # 0

\* the search was called again with the query its first request carried
Renormalized == pc = "done" /\ call.round = 2

\* C6 (as stated): normalising a normalised query returns the same string.
C6_Idempotent == Renormalized => http[1].key = call.query

\* C6 (as amended): normalising a normalised query returns the same string
\* exactly when the normalised query holds neither two adjacent spaces nor a
\* disc marker; a query from which the second rule removes nothing is such a
\* query.
C6_IdempotentUnlessMarkerRemoved ==
    Renormalized =>
        /\ (http[1].key = call.query) <=> (~DoubleSpace(call.query) /\ ~HasMedium(call.query))
        /\ ~HasMedium(ReplaceNonWord(call.raw)) => http[1].key = call.query

\* a query with punctuation and a disc marker whose normal form is a fixed point
C6_Witness ==
    /\ Renormalized
    /\ call.raw = <<"a", "!", "D", "i", "s", "c", " ", "1">>
    /\ call.query = <<"a", " ">>
    /\ http[1].key = call.query

====
